---------------------------- MODULE Spec2Model ----------------------------
(***************************************************************************)
(* Model of the Redis IoT anomaly detector: the stream processor           *)
(* (src/stream_processor.py) consuming the input stream through a consumer *)
(* group, classifying each reading against a baseline read from the time   *)
(* series, appending alerts, writing the reading and acknowledging it;     *)
(* and the alert consumer (src/alert_consumer.py) draining the alert       *)
(* stream through its own consumer group.                                  *)
(*                                                                         *)
(* Abstractions:                                                           *)
(*  - a message id is the entry's position in the input stream;            *)
(*  - temperatures are integers; the producer's float timestamp is a       *)
(*    count of clock ticks, TicksPerMs ticks to the millisecond;           *)
(*  - arithmetic is exact: the mean is the pair (sum, n) and the standard  *)
(*    deviation is kept as the scaled sum of squared deviations, so the    *)
(*    bound test of check_for_anomaly is compared in squared form          *)
(*    (floating point rounding is not modelled);                           *)
(*  - the retention of the time series (30 days) is not modelled.          *)
(***************************************************************************)
EXTENDS Integers, Sequences, FiniteSets

\* ------------------------------------------------------------------ bounds

\* Entries the producer appends to the input stream in one run of the model.
MaxEntries == 3

\* Records the alert stream holds at most in one run of the model.
MaxAlerts == 2

\* The default window_size of check_for_anomaly (100 in the source), scaled
\* down so that a full window is reachable within MaxEntries readings.
WindowSize == 2

\* Clock ticks per millisecond of the producer's fractional timestamp.
TicksPerMs == 2

\* Clock ticks between two entries of the producer (one second in the source).
ProducerPeriod == 3

\* Longest pre-existing series and largest window of the classifier runs.
MaxSeries == 3

\* The default window_size again, scaled down less: a window large enough
\* for one of its own members to lie outside mean +/- 2 standard deviations.
ReplayWindow == 6

\* ------------------------------------------------------- program constants

\* std_dev_multiplier=2, the default of check_for_anomaly.
DefaultMultiplier == 2

\* The processor instances (all named CONSUMER_NAME = 'processor-01').
Procs == {1, 2}

\* Temperatures the producer writes (degrees Celsius).
Temps == {20, 25}

\* std_dev_multiplier values an operator writes from the dashboard.
OperatorMultipliers == {3}

\* Duplicate policies of the time series server: BLOCK is the server default,
\* LAST is what a server configured with DUPLICATE_POLICY LAST does.
DuplicatePolicies == {"BLOCK", "LAST"}

VARIABLES
    redisUp,        \* the Redis server is reachable
    dupPolicy,      \* the time series server's DUPLICATE_POLICY
    stream,         \* the input stream 'sensor:temperature:01'
    groupExists,    \* consumer group 'anomaly_detector_group' exists
    lastDelivered,  \* the group's last-delivered id
    pel,            \* pending entries of consumer 'processor-01'
    tsStore,        \* time series 'device:01:temp', sorted by timestamp
    alerts,         \* the stream 'anomaly_alerts'
    params,         \* field std_dev_multiplier of hash 'dashboard_params' (0: unset)
    pc,             \* position of each processor instance
    phase,          \* "recovery" or "live": which loop of process_messages
    cur,            \* message_id in process (0: none)
    verdict,        \* result of check_for_anomaly for cur
    startPending,   \* history: the pending entries when the run entered recovery
    paramsAtPull,   \* history: params when cur was pulled
    probe,          \* input and result of a classifier run (SpecClassifier only)
    alertConsumer   \* alert_consumer.py: its position, its group on 'anomaly_alerts'

vars == <<redisUp, dupPolicy, stream, groupExists, lastDelivered, pel, tsStore,
          alerts, params, pc, phase, cur, verdict, startPending, paramsAtPull,
          probe, alertConsumer>>

server == <<redisUp, dupPolicy>>
locals == <<cur, verdict, paramsAtPull>>

\* ----------------------------------------------------------------- helpers

Min(S) == CHOOSE x \in S : \A y \in S : x <= y

RECURSIVE SumSeq(_)
SumSeq(s) == IF s = << >> THEN 0 ELSE Head(s) + SumSeq(Tail(s))

\* A field of a stream entry: a string that parses as a number, or one that
\* does not.
Num(v) == [parsable |-> TRUE, val |-> v]
Garbage == [parsable |-> FALSE, val |-> 0]

NoVerdict == [done |-> FALSE]
NoProbe == [state |-> "none"]

\* The alert consumer not started: no position, no group on the alert stream.
NoConsumer ==
    [pc |-> "off", phase |-> "none", cur |-> 0, printed |-> "nothing",
     groupExists |-> FALSE, lastDelivered |-> 0, pel |-> {}, startPending |-> {}]


\* ------------------------------------------------------- decoding an entry

\* The timestamp of the moment of processing instead of the reading's own:
\* the clock reads what the producer stamps on its newest entry.
TimestampMsNow(ticks) == (Len(stream) * ProducerPeriod) \div TicksPerMs

\* int(float(decoded_data.get('timestamp')) * 1000): the fractional seconds
\* of the producer's clock, truncated to whole milliseconds.
TimestampMs(ticks) == ticks \div TicksPerMs

\* float(decoded_data.get('temperature_c')).
Temperature(field) == field.val

\* Mutant of Decodes: a timestamp that is no number is taken as 0.
DecodesLenient(entry) == entry.temperature_c.parsable

\* The two conversions raise on a field that is no number; the timestamp is
\* converted first.
Decodes(entry) == entry.timestamp.parsable /\ entry.temperature_c.parsable

\* ------------------------------------------------------ the time series

HasSample(store, ts) == \E i \in 1..Len(store) : store[i].ts = ts

\* TS.RANGE key - + COUNT count: the samples from the oldest on, at most
\* count of them, in timestamp order.
TsRange(store, count) ==
    SubSeq(store, 1, IF count < Len(store) THEN count ELSE Len(store))

\* TS.ADD key ts value refuses a timestamp the series already holds under the
\* policy BLOCK.
TsAddRefused(store, ts, policy) == policy = "BLOCK" /\ HasSample(store, ts)

\* TS.ADD key ts value: the sample takes its place in timestamp order (under
\* the policy LAST it replaces the sample of the same timestamp).
TsAdd(store, ts, value) ==
    LET older == SelectSeq(store, LAMBDA x : x.ts < ts)
        newer == SelectSeq(store, LAMBDA x : x.ts > ts)
    IN  older \o <<[ts |-> ts, val |-> value]>> \o newer

\* ------------------------------------------------------ check_for_anomaly

\* The result (False, None, None).
NoBaseline == [done |-> TRUE, is_anomaly |-> FALSE, baseline |-> FALSE,
               values |-> << >>, stamps |-> {}, sum |-> 0, n |-> 0, sq |-> 0,
               multiplier |-> 0]

\* The sum of squares without the mean taken off: the sum of (n*v)^2.
SqDevUncentred(values) ==
    LET n == Len(values)
    IN  SumSeq([i \in 1..n |-> (n * values[i]) * (n * values[i])])

\* Sum over the window of (n*v - sum)^2, which is n^2 times the sum of the
\* squared deviations from the mean sum/n.
SqDev(values) ==
    LET n == Len(values)
        s == SumSeq(values)
    IN  SumSeq([i \in 1..n |-> (n * values[i] - s) * (n * values[i] - s)])

\* variance = sum((v - mean)^2) / len(values), as the fraction
\* VarianceNum / VarianceDen with VarianceDen = n^2 * len(values).
VarianceDen(n) == n * n * n

\* The test with open bounds: not (lower_bound < temperature < upper_bound).
OutOfBoundsOpen(temperature, s, n, sq, multiplier) ==
    (n * temperature - s) * (n * temperature - s) * VarianceDen(n)
        >= multiplier * multiplier * sq * n * n

\* not (lower_bound <= temperature <= upper_bound) with the bounds
\* mean -/+ multiplier * sqrt(variance), multiplier >= 0: the distance of
\* the temperature from the mean exceeds multiplier * sqrt(variance).
\* Squared and scaled by n^2: (n*t - sum)^2 * VarianceDen > k^2 * sq * n^2.
OutOfBounds(temperature, s, n, sq, multiplier) ==
    (n * temperature - s) * (n * temperature - s) * VarianceDen(n)
        > multiplier * multiplier * sq * n * n

\* Mutant of CheckForAnomaly: no test for a window shorter than window_size.
CheckForAnomalyShortWindow(store, temperature, window_size, std_dev_multiplier) ==
    LET data_points == TsRange(store, window_size)
        values == [i \in 1..Len(data_points) |-> data_points[i].val]
        n == Len(values)
        s == SumSeq(values)
        sq == SqDev(values)
    IN  IF Len(data_points) = 0
        THEN NoBaseline
        ELSE [done |-> TRUE,
              is_anomaly |-> OutOfBounds(temperature, s, n, sq, std_dev_multiplier),
              baseline |-> TRUE, values |-> values,
              stamps |-> {data_points[i].ts : i \in 1..Len(data_points)},
              sum |-> s, n |-> n, sq |-> sq, multiplier |-> std_dev_multiplier]

\* check_for_anomaly with a guard the source does not have: a standard
\* deviation of zero classifies nothing.
CheckForAnomalyFlatGuard(store, temperature, window_size, std_dev_multiplier) ==
    LET data_points == TsRange(store, window_size)
        values == [i \in 1..Len(data_points) |-> data_points[i].val]
        n == Len(values)
        s == SumSeq(values)
        sq == SqDev(values)
    IN  IF Len(data_points) < window_size
        THEN NoBaseline
        ELSE [done |-> TRUE,
              is_anomaly |-> sq # 0 /\ OutOfBounds(temperature, s, n, sq, std_dev_multiplier),
              baseline |-> TRUE, values |-> values,
              stamps |-> {data_points[i].ts : i \in 1..Len(data_points)},
              sum |-> s, n |-> n, sq |-> sq, multiplier |-> std_dev_multiplier]

\* check_for_anomaly with the series reachable.
CheckForAnomaly(store, temperature, window_size, std_dev_multiplier) ==
    LET data_points == TsRange(store, window_size)
        values == [i \in 1..Len(data_points) |-> data_points[i].val]
        n == Len(values)
        s == SumSeq(values)
        sq == SqDev(values)
    IN  IF Len(data_points) < window_size
        THEN NoBaseline
        ELSE [done |-> TRUE,
              is_anomaly |-> OutOfBounds(temperature, s, n, sq, std_dev_multiplier),
              baseline |-> TRUE, values |-> values,
              stamps |-> {data_points[i].ts : i \in 1..Len(data_points)},
              sum |-> s, n |-> n, sq |-> sq, multiplier |-> std_dev_multiplier]

\* An alert record that carries the reading where the mean belongs.
AlertDataOfReading(id, temperature, timestamp_ms, v) ==
    [device_id |-> "01", type |-> "statistical_anomaly",
     temp_reading |-> temperature,
     moving_average |-> <<temperature, 1>>,
     standard_deviation_sq |-> <<v.sq, VarianceDen(v.n)>>,
     timestamp |-> timestamp_ms, src |-> id, window |-> v.stamps]

\* The alert record of process_messages; src and window are history: the
\* message id the alert was appended for, and the timestamps of the samples
\* its moving_average and standard_deviation were computed from.
AlertData(id, temperature, timestamp_ms, v) ==
    [device_id |-> "01", type |-> "statistical_anomaly",
     temp_reading |-> temperature,
     moving_average |-> <<v.sum, v.n>>,
     standard_deviation_sq |-> <<v.sq, VarianceDen(v.n)>>,
     timestamp |-> timestamp_ms, src |-> id, window |-> v.stamps]


\* ------------------------------------------------------------- environment

\* The entry the producer appends as the k-th: timestamp time.time(), one
\* period after the previous one.
ProducerTimestamp(k) == k * ProducerPeriod

\* What a writer of the input stream may append: a reading of the producer
\* (generate_sensor_data), or an entry whose timestamp or temperature_c is
\* no number.
EntryChoices(k) ==
    {[timestamp |-> Num(ProducerTimestamp(k)), temperature_c |-> Num(t)] : t \in Temps}
    \cup {[timestamp |-> Garbage, temperature_c |-> Num(Min(Temps))],
          [timestamp |-> Num(ProducerTimestamp(k)), temperature_c |-> Garbage]}

\* run_producer: r.xadd(STREAM_KEY, data).
XAdd ==
    /\ redisUp
    /\ Len(stream) < MaxEntries
    /\ \E e \in EntryChoices(Len(stream) + 1) : stream' = Append(stream, e)
    /\ UNCHANGED <<server, groupExists, lastDelivered, pel, tsStore, alerts,
                   params, pc, phase, locals, startPending, probe,
                   alertConsumer>>

\* The Redis server becomes unreachable, and reachable again.
RedisDown ==
    /\ redisUp
    /\ redisUp' = FALSE
    /\ UNCHANGED <<dupPolicy, stream, groupExists, lastDelivered, pel, tsStore,
                   alerts, params, pc, phase, locals, startPending, probe,
                   alertConsumer>>

RedisBack ==
    /\ ~redisUp
    /\ redisUp' = TRUE
    /\ UNCHANGED <<dupPolicy, stream, groupExists, lastDelivered, pel, tsStore,
                   alerts, params, pc, phase, locals, startPending, probe,
                   alertConsumer>>

\* update_parameters_to_redis of the dashboard:
\* r.hset(PARAMS_KEY, 'std_dev_multiplier', std_dev_value).
UpdateParameters ==
    /\ redisUp
    /\ \E m \in OperatorMultipliers : m # params /\ params' = m
    /\ UNCHANGED <<server, stream, groupExists, lastDelivered, pel, tsStore,
                   alerts, pc, phase, locals, startPending, probe,
                   alertConsumer>>

\* --------------------------------------------------------- the processor

Running(p) == pc[p] \in {"connect", "mkgroup", "pull", "sleep", "check",
                         "alert", "tsadd", "ack"}

\* The end of the processing of one entry, acknowledged or failed: back to
\* the xreadgroup of the loop.
NextPull(p) ==
    /\ pc' = [pc EXCEPT ![p] = "pull"]
    /\ cur' = [cur EXCEPT ![p] = 0]
    /\ verdict' = [verdict EXCEPT ![p] = NoVerdict]
    /\ paramsAtPull' = [paramsAtPull EXCEPT ![p] = 0]

\* Module start: r.ping(); exit(1) on a ConnectionError.
Connect(p) ==
    /\ pc[p] = "connect"
    /\ pc' = [pc EXCEPT ![p] = IF redisUp THEN "mkgroup" ELSE "exit_error"]
    /\ UNCHANGED <<server, stream, groupExists, lastDelivered, pel, tsStore,
                   alerts, params, phase, locals, startPending, probe,
                   alertConsumer>>

\* create_consumer_group that makes the group anew whether or not it exists.
CreateConsumerGroupAnew(p) ==
    /\ pc[p] = "mkgroup"
    /\ IF redisUp
       THEN /\ pc' = [pc EXCEPT ![p] = "pull"]
            /\ phase' = [phase EXCEPT ![p] = "recovery"]
            /\ startPending' = [startPending EXCEPT ![p] = {}]
            /\ groupExists' = TRUE
            /\ lastDelivered' = 0
            /\ pel' = {}
       ELSE /\ pc' = [pc EXCEPT ![p] = "exit_error"]
            /\ UNCHANGED <<phase, startPending, groupExists, lastDelivered, pel>>
    /\ UNCHANGED <<server, stream, tsStore, alerts, params, locals, probe,
                   alertConsumer>>

\* create_consumer_group: xgroup_create(..., id='0', mkstream=True); BUSYGROUP
\* is reported and passed over. A ConnectionError is no ResponseError: nothing
\* catches it and the process ends.
CreateConsumerGroup(p) ==
    /\ pc[p] = "mkgroup"
    /\ IF redisUp
       THEN /\ pc' = [pc EXCEPT ![p] = "pull"]
            /\ phase' = [phase EXCEPT ![p] = "recovery"]
            /\ startPending' = [startPending EXCEPT ![p] = IF groupExists THEN pel ELSE {}]
            /\ IF groupExists
               THEN UNCHANGED <<groupExists, lastDelivered, pel>>
               ELSE /\ groupExists' = TRUE
                    /\ lastDelivered' = 0
                    /\ pel' = {}
       ELSE /\ pc' = [pc EXCEPT ![p] = "exit_error"]
            /\ UNCHANGED <<phase, startPending, groupExists, lastDelivered, pel>>
    /\ UNCHANGED <<server, stream, tsStore, alerts, params, locals, probe,
                   alertConsumer>>

\* xreadgroup raised a ConnectionError: the handler of the loop sleeps.
PullFails(p) ==
    /\ pc[p] = "pull"
    /\ ~redisUp
    /\ pc' = [pc EXCEPT ![p] = "sleep"]
    /\ UNCHANGED <<server, stream, groupExists, lastDelivered, pel, tsStore,
                   alerts, params, phase, locals, startPending, probe,
                   alertConsumer>>

\* time.sleep is over: the loop goes round.
Wake(p) ==
    /\ pc[p] = "sleep"
    /\ pc' = [pc EXCEPT ![p] = "pull"]
    /\ UNCHANGED <<server, stream, groupExists, lastDelivered, pel, tsStore,
                   alerts, params, phase, locals, startPending, probe,
                   alertConsumer>>

\* Mutant of RecoveryDone: the recovery loop breaks whatever its pull returned.
RecoveryDoneEarly(p) == pel = {} \/ p \in Procs

\* The recovery loop found nothing pending: break.
RecoveryDone(p) == pel = {}

\* Recovery loop: xreadgroup(streams={INPUT_STREAM_KEY: '0'}, count=1) returns
\* the first pending entry of the consumer, or none and the loop breaks.
RecoveryPull(p) ==
    /\ pc[p] = "pull"
    /\ phase[p] = "recovery"
    /\ redisUp
    /\ IF RecoveryDone(p)
       THEN /\ phase' = [phase EXCEPT ![p] = "live"]
            /\ UNCHANGED <<pc, locals>>
       ELSE /\ pc' = [pc EXCEPT ![p] = "check"]
            /\ cur' = [cur EXCEPT ![p] = Min(pel)]
            /\ paramsAtPull' = [paramsAtPull EXCEPT ![p] = params]
            /\ UNCHANGED <<phase, verdict>>
    /\ UNCHANGED <<server, stream, groupExists, lastDelivered, pel, tsStore,
                   alerts, params, startPending, probe,
                   alertConsumer>>

\* Live loop: xreadgroup(streams={INPUT_STREAM_KEY: '>'}, count=1, block=1000)
\* delivers the next entry no consumer of the group has had and adds it to the
\* pending entries, or times out: the loop sleeps and goes round.
LivePull(p) ==
    /\ pc[p] = "pull"
    /\ phase[p] = "live"
    /\ redisUp
    /\ IF lastDelivered < Len(stream)
       THEN /\ lastDelivered' = lastDelivered + 1
            /\ pel' = pel \cup {lastDelivered + 1}
            /\ pc' = [pc EXCEPT ![p] = "check"]
            /\ cur' = [cur EXCEPT ![p] = lastDelivered + 1]
            /\ paramsAtPull' = [paramsAtPull EXCEPT ![p] = params]
            /\ UNCHANGED verdict
       ELSE /\ pc' = [pc EXCEPT ![p] = "sleep"]
            /\ UNCHANGED <<lastDelivered, pel, locals>>
    /\ UNCHANGED <<server, stream, groupExists, tsStore, alerts, params, phase,
                   startPending, probe,
                   alertConsumer>>


\* Mutant of EntryFails: the handler acknowledges the entry it failed on.
EntryFailsAcks(p) ==
    /\ NextPull(p)
    /\ pel' = pel \ {cur[p]}
    /\ UNCHANGED <<tsStore, alerts>>

\* A handler that goes back to the entry it failed on instead of going round
\* the loop.
EntryFailsRetries(p) ==
    /\ pc' = [pc EXCEPT ![p] = "check"]
    /\ UNCHANGED <<cur, verdict, paramsAtPull, pel, tsStore, alerts>>

\* The handler of the per-entry try block (except Exception): the error is
\* printed, the entry is not acknowledged, the loop goes round.
EntryFails(p) ==
    /\ NextPull(p)
    /\ UNCHANGED <<pel, tsStore, alerts>>

\* The step with a check_for_anomaly that lets the error of a failed
\* ts_client.range through to the handler of the entry.
CheckEntryRaises(p, window_size) ==
    /\ pc[p] = "check"
    /\ LET entry == stream[cur[p]]
       IN  IF ~Decodes(entry) \/ ~redisUp
           THEN EntryFails(p)
           ELSE LET v == CheckForAnomaly(tsStore, Temperature(entry.temperature_c),
                                         window_size, DefaultMultiplier)
                IN  /\ verdict' = [verdict EXCEPT ![p] = v]
                    /\ pc' = [pc EXCEPT ![p] = IF v.is_anomaly THEN "alert" ELSE "tsadd"]
                    /\ UNCHANGED <<cur, paramsAtPull, pel, tsStore, alerts>>
    /\ UNCHANGED <<server, stream, groupExists, lastDelivered, params, phase,
                   startPending, probe,
                   alertConsumer>>

\* Decoding of the entry and check_for_anomaly(r, ts_client, device_id,
\* temperature), with the defaults of window_size and std_dev_multiplier.
\* check_for_anomaly catches the error of a failed ts_client.range and
\* returns (False, None, None).
CheckEntry(p, window_size) ==
    /\ pc[p] = "check"
    /\ LET entry == stream[cur[p]]
       IN  IF ~Decodes(entry)
           THEN EntryFails(p)
           ELSE LET v == IF redisUp
                         THEN CheckForAnomaly(tsStore, Temperature(entry.temperature_c),
                                              window_size, DefaultMultiplier)
                         ELSE NoBaseline
                IN  /\ verdict' = [verdict EXCEPT ![p] = v]
                    /\ pc' = [pc EXCEPT ![p] = IF v.is_anomaly THEN "alert" ELSE "tsadd"]
                    /\ UNCHANGED <<cur, paramsAtPull, pel, tsStore, alerts>>
    /\ UNCHANGED <<server, stream, groupExists, lastDelivered, params, phase,
                   startPending, probe,
                   alertConsumer>>

\* The call as the source makes it: window_size is left at its default.
Check(p) == CheckEntry(p, WindowSize)

\* if is_anomaly: r.xadd(ANOMALY_ALERTS_STREAM, alert_data).
AppendAlert(p) ==
    /\ pc[p] = "alert"
    /\ LET entry == stream[cur[p]]
       IN  IF redisUp
           THEN /\ Len(alerts) < MaxAlerts
                /\ alerts' = Append(alerts,
                                    AlertData(cur[p], Temperature(entry.temperature_c),
                                              TimestampMs(entry.timestamp.val), verdict[p]))
                /\ pc' = [pc EXCEPT ![p] = "tsadd"]
                /\ UNCHANGED <<locals, pel, tsStore>>
           ELSE EntryFails(p)
    /\ UNCHANGED <<server, stream, groupExists, lastDelivered, params, phase,
                   startPending, probe,
                   alertConsumer>>

\* ts_client.add(ts_key, timestamp_ms, temperature, ...).
WriteReading(p) ==
    /\ pc[p] = "tsadd"
    /\ LET entry == stream[cur[p]]
           ts == TimestampMs(entry.timestamp.val)
       IN  IF redisUp /\ ~TsAddRefused(tsStore, ts, dupPolicy)
           THEN /\ tsStore' = TsAdd(tsStore, ts, Temperature(entry.temperature_c))
                /\ pc' = [pc EXCEPT ![p] = "ack"]
                /\ UNCHANGED <<locals, pel, alerts>>
           ELSE EntryFails(p)
    /\ UNCHANGED <<server, stream, groupExists, lastDelivered, params, phase,
                   startPending, probe,
                   alertConsumer>>

\* r.xack(INPUT_STREAM_KEY, CONSUMER_GROUP_NAME, message_id).
Acknowledge(p) ==
    /\ pc[p] = "ack"
    /\ IF redisUp
       THEN /\ pel' = pel \ {cur[p]}
            /\ NextPull(p)
            /\ UNCHANGED <<tsStore, alerts>>
       ELSE EntryFails(p)
    /\ UNCHANGED <<server, stream, groupExists, lastDelivered, params, phase,
                   startPending, probe,
                   alertConsumer>>

\* The process is gone: its locals with it.
Ends(p, how) ==
    /\ pc' = [pc EXCEPT ![p] = how]
    /\ phase' = [phase EXCEPT ![p] = "none"]
    /\ cur' = [cur EXCEPT ![p] = 0]
    /\ verdict' = [verdict EXCEPT ![p] = NoVerdict]
    /\ paramsAtPull' = [paramsAtPull EXCEPT ![p] = 0]
    /\ startPending' = [startPending EXCEPT ![p] = {}]

\* The process is killed, or its machine fails, at any point.
Crash(p) ==
    /\ Running(p)
    /\ Ends(p, "down")
    /\ UNCHANGED <<server, stream, groupExists, lastDelivered, pel, tsStore,
                   alerts, params, probe,
                   alertConsumer>>

\* KeyboardInterrupt: the live loop's handler breaks; anywhere else nothing
\* catches it. Either way the process ends where it is.
Interrupt(p) ==
    /\ Running(p)
    /\ Ends(p, "stopped")
    /\ UNCHANGED <<server, stream, groupExists, lastDelivered, pel, tsStore,
                   alerts, params, probe,
                   alertConsumer>>

\* The operator starts the program again.
Restart(p) ==
    /\ pc[p] \in {"down", "stopped", "exit_error"}
    /\ pc' = [pc EXCEPT ![p] = "connect"]
    /\ UNCHANGED <<server, stream, groupExists, lastDelivered, pel, tsStore,
                   alerts, params, phase, locals, startPending, probe,
                   alertConsumer>>

\* ------------------------------------------------------- the specification

Init ==
    /\ redisUp = TRUE
    /\ dupPolicy \in DuplicatePolicies
    /\ stream = << >>
    /\ groupExists = FALSE
    /\ lastDelivered = 0
    /\ pel = {}
    /\ tsStore = << >>
    /\ alerts = << >>
    /\ params = 0
    /\ pc = [p \in Procs |-> IF p = 1 THEN "connect" ELSE "off"]
    /\ phase = [p \in Procs |-> "none"]
    /\ cur = [p \in Procs |-> 0]
    /\ verdict = [p \in Procs |-> NoVerdict]
    /\ startPending = [p \in Procs |-> {}]
    /\ paramsAtPull = [p \in Procs |-> 0]
    /\ probe = NoProbe
    /\ alertConsumer = NoConsumer

\* The steps the program itself takes.
Steps(p) ==
    \/ Connect(p)
    \/ CreateConsumerGroup(p)
    \/ PullFails(p)
    \/ Wake(p)
    \/ RecoveryPull(p)
    \/ LivePull(p)
    \/ Check(p)
    \/ AppendAlert(p)
    \/ WriteReading(p)
    \/ Acknowledge(p)

ProcNext(p) ==
    \/ Steps(p)
    \/ Crash(p)
    \/ Interrupt(p)
    \/ Restart(p)

Next ==
    \/ XAdd
    \/ RedisDown
    \/ RedisBack
    \/ UpdateParameters
    \/ \E p \in Procs : ProcNext(p)

Spec == Init /\ [][Next]_vars

\* A running program takes its next step: the only fairness assumed.
SpecFair == Spec /\ \A p \in Procs : WF_vars(Steps(p))

\* One run of processor 1, from its start, that nobody stops: the producer,
\* the server going away and coming back, and the steps of the program.
NextRun ==
    \/ XAdd
    \/ RedisDown
    \/ RedisBack
    \/ Steps(1)

SpecRun == Init /\ [][NextRun]_vars /\ WF_vars(Steps(1))

\* ------------------------------------------- the classifier on its own

\* The series of n samples, one per millisecond, with the values vs.
Series(vs) == [i \in 1..Len(vs) |-> [ts |-> i, val |-> vs[i]]]

RECURSIVE SeqsUpTo(_, _)
SeqsUpTo(S, n) ==
    IF n = 0 THEN {<< >>}
    ELSE LET shorter == SeqsUpTo(S, n - 1)
         IN  shorter \cup {Append(q, x) : q \in shorter, x \in S}

\* Temperatures of the classifier runs, in half degrees Celsius (the
\* producer rounds to hundredths; the test of check_for_anomaly does not
\* depend on the unit): 19, 20 and 21 degrees stored, and 18, 20, 21.5, 22,
\* 23 and 25 degrees for the new reading.
ClassifierValues == {38, 40, 42}
ClassifierTemps == {36, 40, 43, 44, 46, 50}

\* The stored readings 20, 21, 19, 20, 20 degrees, oldest first.
ScenarioA == <<40, 42, 38, 40, 40>>

\* check_for_anomaly is called on a series of any length and content, for any
\* temperature and window size.
InitClassifier ==
    /\ redisUp = TRUE
    /\ dupPolicy \in DuplicatePolicies
    /\ stream = << >>
    /\ groupExists = FALSE
    /\ lastDelivered = 0
    /\ pel = {}
    /\ tsStore \in {Series(vs) : vs \in SeqsUpTo(ClassifierValues, MaxSeries)
                                          \cup {ScenarioA}}
    /\ alerts = << >>
    /\ params = 0
    /\ pc = [p \in Procs |-> "off"]
    /\ phase = [p \in Procs |-> "none"]
    /\ cur = [p \in Procs |-> 0]
    /\ verdict = [p \in Procs |-> NoVerdict]
    /\ startPending = [p \in Procs |-> {}]
    /\ paramsAtPull = [p \in Procs |-> 0]
    /\ probe \in [state : {"input"}, temperature : ClassifierTemps,
                  window_size : 1..MaxSeries \cup {Len(ScenarioA)},
                  multiplier : {DefaultMultiplier}]
    /\ alertConsumer = NoConsumer

Classify ==
    /\ probe.state = "input"
    /\ probe' = [state |-> "done", temperature |-> probe.temperature,
                 window_size |-> probe.window_size,
                 result |-> CheckForAnomaly(tsStore, probe.temperature,
                                            probe.window_size, probe.multiplier)]
    /\ UNCHANGED <<server, stream, groupExists, lastDelivered, pel, tsStore,
                   alerts, params, pc, phase, locals, startPending,
                   alertConsumer>>

NextClassifier == Classify

SpecClassifier == InitClassifier /\ [][NextClassifier]_vars

\* ------------------------------------------- redelivery with a long window

\* The series after the producer's first readings vs were all written.
WrittenSeries(vs) ==
    [i \in 1..Len(vs) |-> [ts |-> TimestampMs(ProducerTimestamp(i)), val |-> vs[i]]]

\* The processor starts again over a stream of ReplayWindow readings that
\* were all written; entry k was never acknowledged (the process stopped
\* between ts_client.add and r.xack, or the xack failed).
InitReplay ==
    /\ redisUp = TRUE
    /\ dupPolicy \in DuplicatePolicies
    /\ \E vs \in [1..ReplayWindow -> Temps] :
          /\ stream = [i \in 1..ReplayWindow |->
                          [timestamp |-> Num(ProducerTimestamp(i)),
                           temperature_c |-> Num(vs[i])]]
          /\ tsStore = WrittenSeries(vs)
    /\ groupExists = TRUE
    /\ lastDelivered = ReplayWindow
    /\ pel \in {{k} : k \in 1..ReplayWindow}
    /\ alerts = << >>
    /\ params = 0
    /\ pc = [p \in Procs |-> IF p = 1 THEN "pull" ELSE "off"]
    /\ phase = [p \in Procs |-> IF p = 1 THEN "recovery" ELSE "none"]
    /\ cur = [p \in Procs |-> 0]
    /\ verdict = [p \in Procs |-> NoVerdict]
    /\ startPending = [p \in Procs |-> IF p = 1 THEN pel ELSE {}]
    /\ paramsAtPull = [p \in Procs |-> 0]
    /\ probe = NoProbe
    /\ alertConsumer = NoConsumer

\* The recovery loop of processor 1 over the pending entry, the window of
\* check_for_anomaly being ReplayWindow samples.
NextReplay ==
    \/ RecoveryPull(1)
    \/ CheckEntry(1, ReplayWindow)
    \/ AppendAlert(1)
    \/ WriteReading(1)
    \/ Acknowledge(1)

SpecReplay == InitReplay /\ [][NextReplay]_vars

\* ------------------------------------------------ two processor instances

\* Two instances of the program are started on the same server; both read
\* the group as CONSUMER_NAME = 'processor-01', so the pending entries of
\* that consumer are those of both.
InitTwo ==
    /\ redisUp = TRUE
    /\ dupPolicy \in DuplicatePolicies
    /\ stream = << >>
    /\ groupExists = FALSE
    /\ lastDelivered = 0
    /\ pel = {}
    /\ tsStore = << >>
    /\ alerts = << >>
    /\ params = 0
    /\ pc = [p \in Procs |-> "connect"]
    /\ phase = [p \in Procs |-> "none"]
    /\ cur = [p \in Procs |-> 0]
    /\ verdict = [p \in Procs |-> NoVerdict]
    /\ startPending = [p \in Procs |-> {}]
    /\ paramsAtPull = [p \in Procs |-> 0]
    /\ probe = NoProbe
    /\ alertConsumer = NoConsumer

\* The producer and the two instances, the server reachable and neither
\* instance stopped.
NextTwo ==
    \/ XAdd
    \/ \E p \in Procs :
          \/ Connect(p)
          \/ CreateConsumerGroup(p)
          \/ Wake(p)
          \/ RecoveryPull(p)
          \/ LivePull(p)
          \/ Check(p)
          \/ AppendAlert(p)
          \/ WriteReading(p)
          \/ Acknowledge(p)

SpecTwo == InitTwo /\ [][NextTwo]_vars

\* ------------------------------------------------------ the alert consumer

\* Everything but the server, the alert stream and the alert consumer.
processor == <<stream, groupExists, lastDelivered, pel, tsStore, params, pc,
               phase, locals, startPending, probe>>

\* What a writer of the alert stream may append: the alert_data of the
\* processor, or a record whose timestamp or temp_reading is no number.
AlertChoices(k) ==
    {[timestamp |-> Num(TimestampMs(ProducerTimestamp(k))), temp_reading |-> Num(t)] :
        t \in Temps}
    \cup {[timestamp |-> Garbage, temp_reading |-> Num(Min(Temps))],
          [timestamp |-> Num(TimestampMs(ProducerTimestamp(k))), temp_reading |-> Garbage]}

\* r.xadd(ANOMALY_ALERTS_STREAM, alert_data), by whoever writes the stream.
AlertArrives ==
    /\ redisUp
    /\ Len(alerts) < MaxAlerts
    /\ \E a \in AlertChoices(Len(alerts) + 1) : alerts' = Append(alerts, a)
    /\ UNCHANGED <<server, processor, alertConsumer>>

AlertConsumerRunning ==
    alertConsumer.pc \in {"connect", "mkgroup", "pull", "sleep", "print", "ack"}

\* The alert consumer goes round its loop: the next thing is an xreadgroup.
AlertNextPull(c) == [c EXCEPT !.pc = "pull", !.cur = 0]

\* r.ping() at import; a ConnectionError ends the process with exit(1).
AlertConnect ==
    /\ alertConsumer.pc = "connect"
    /\ alertConsumer' = [alertConsumer EXCEPT
                            !.pc = IF redisUp THEN "mkgroup" ELSE "exit_error"]
    /\ UNCHANGED <<server, processor, alerts>>

\* create_consumer_group of alert_consumer.py: xgroup_create(..., id='0',
\* mkstream=True); BUSYGROUP is passed over, a ConnectionError is not caught.
AlertCreateConsumerGroup ==
    /\ alertConsumer.pc = "mkgroup"
    /\ alertConsumer' =
          IF ~redisUp
          THEN [alertConsumer EXCEPT !.pc = "exit_error"]
          ELSE IF alertConsumer.groupExists
          THEN [alertConsumer EXCEPT !.pc = "pull", !.phase = "recovery",
                                     !.startPending = alertConsumer.pel]
          ELSE [alertConsumer EXCEPT !.pc = "pull", !.phase = "recovery",
                                     !.groupExists = TRUE, !.lastDelivered = 0,
                                     !.pel = {}, !.startPending = {}]
    /\ UNCHANGED <<server, processor, alerts>>

\* xreadgroup raised a ConnectionError: the handler of the loop sleeps.
AlertPullFails ==
    /\ alertConsumer.pc = "pull"
    /\ ~redisUp
    /\ alertConsumer' = [alertConsumer EXCEPT !.pc = "sleep"]
    /\ UNCHANGED <<server, processor, alerts>>

\* time.sleep is over.
AlertWake ==
    /\ alertConsumer.pc = "sleep"
    /\ alertConsumer' = [alertConsumer EXCEPT !.pc = "pull"]
    /\ UNCHANGED <<server, processor, alerts>>

\* Recovery loop: xreadgroup(streams={ALERT_STREAM_KEY: '0'}, count=1)
\* returns the first pending entry of the consumer; an empty reply breaks.
AlertRecoveryPull ==
    /\ alertConsumer.pc = "pull"
    /\ alertConsumer.phase = "recovery"
    /\ redisUp
    /\ alertConsumer' =
          IF alertConsumer.pel = {}
          THEN [alertConsumer EXCEPT !.phase = "live"]
          ELSE [alertConsumer EXCEPT !.pc = "print", !.cur = Min(alertConsumer.pel)]
    /\ UNCHANGED <<server, processor, alerts>>

\* Live loop: xreadgroup(streams={ALERT_STREAM_KEY: '>'}, count=1,
\* block=1000) delivers the next never-delivered entry, or times out.
AlertLivePull ==
    /\ alertConsumer.pc = "pull"
    /\ alertConsumer.phase = "live"
    /\ redisUp
    /\ alertConsumer' =
          IF alertConsumer.lastDelivered < Len(alerts)
          THEN [alertConsumer EXCEPT
                   !.lastDelivered = @ + 1,
                   !.pel = @ \cup {alertConsumer.lastDelivered + 1},
                   !.pc = "print",
                   !.cur = alertConsumer.lastDelivered + 1]
          ELSE [alertConsumer EXCEPT !.pc = "sleep"]
    /\ UNCHANGED <<server, processor, alerts>>

\* int(float(message_data.get('timestamp'))) and
\* float(message_data.get('temp_reading')) of print_alert succeed.
AlertDecodes(a) == a.timestamp.parsable /\ a.temp_reading.parsable

\* A print_alert without its own try/except: the error of a field that is
\* no number reaches the handler of the entry, which skips the xack.
PrintAlertRaises ==
    /\ alertConsumer.pc = "print"
    /\ alertConsumer' =
          IF AlertDecodes(alerts[alertConsumer.cur])
          THEN [alertConsumer EXCEPT !.pc = "ack", !.printed = "alert"]
          ELSE AlertNextPull(alertConsumer)
    /\ UNCHANGED <<server, processor, alerts>>

\* print_alert(message_id, message_data): prints the alert, or, a field
\* being no number, catches the error and prints the raw data. It returns
\* either way and calls nothing on the server.
PrintAlert ==
    /\ alertConsumer.pc = "print"
    /\ alertConsumer' =
          [alertConsumer EXCEPT
              !.pc = "ack",
              !.printed = IF AlertDecodes(alerts[alertConsumer.cur])
                          THEN "alert" ELSE "raw data"]
    /\ UNCHANGED <<server, processor, alerts>>

\* r.xack(ALERT_STREAM_KEY, CONSUMER_GROUP_NAME, message_id); its
\* ConnectionError is caught by the handler of the entry (except Exception).
AlertAcknowledge ==
    /\ alertConsumer.pc = "ack"
    /\ alertConsumer' =
          IF redisUp
          THEN [AlertNextPull(alertConsumer) EXCEPT !.pel = @ \ {alertConsumer.cur}]
          ELSE AlertNextPull(alertConsumer)
    /\ UNCHANGED <<server, processor, alerts>>

\* The alert consumer is killed or interrupted, at any point.
AlertConsumerEnds ==
    /\ AlertConsumerRunning
    /\ alertConsumer' = [alertConsumer EXCEPT !.pc = "down", !.phase = "none",
                                              !.cur = 0, !.startPending = {}]
    /\ UNCHANGED <<server, processor, alerts>>

\* The operator starts the alert consumer again.
AlertConsumerRestart ==
    /\ alertConsumer.pc \in {"down", "exit_error"}
    /\ alertConsumer' = [alertConsumer EXCEPT !.pc = "connect"]
    /\ UNCHANGED <<server, processor, alerts>>

\* alert_consumer.py is started on an empty alert stream; the processor is
\* not part of this specification.
InitAlerts ==
    /\ redisUp = TRUE
    /\ dupPolicy \in DuplicatePolicies
    /\ stream = << >>
    /\ groupExists = FALSE
    /\ lastDelivered = 0
    /\ pel = {}
    /\ tsStore = << >>
    /\ alerts = << >>
    /\ params = 0
    /\ pc = [p \in Procs |-> "off"]
    /\ phase = [p \in Procs |-> "none"]
    /\ cur = [p \in Procs |-> 0]
    /\ verdict = [p \in Procs |-> NoVerdict]
    /\ startPending = [p \in Procs |-> {}]
    /\ paramsAtPull = [p \in Procs |-> 0]
    /\ probe = NoProbe
    /\ alertConsumer = [NoConsumer EXCEPT !.pc = "connect"]

\* The steps the alert consumer itself takes.
AlertSteps ==
    \/ AlertConnect
    \/ AlertCreateConsumerGroup
    \/ AlertPullFails
    \/ AlertWake
    \/ AlertRecoveryPull
    \/ AlertLivePull
    \/ PrintAlert
    \/ AlertAcknowledge

NextAlerts ==
    \/ AlertArrives
    \/ RedisDown
    \/ RedisBack
    \/ AlertSteps
    \/ AlertConsumerEnds
    \/ AlertConsumerRestart

SpecAlerts == InitAlerts /\ [][NextAlerts]_vars

\* A running alert consumer takes its next step.
SpecAlertsFair == SpecAlerts /\ WF_vars(AlertSteps)

\* ------------------------------------------------------------------ claims

Delivered(i) == groupExists /\ i <= lastDelivered
Acked(i) == Delivered(i) /\ i \notin pel
EntryMs(i) == TimestampMs(stream[i].timestamp.val)
Written(i) ==
    /\ Decodes(stream[i])
    /\ \E j \in 1..Len(tsStore) :
          tsStore[j] = [ts |-> EntryMs(i), val |-> Temperature(stream[i].temperature_c)]

\* C1: write-before-ack. In every reachable state, every entry of the input
\* stream that has been acknowledged (delivered and no longer pending) has its
\* reading in the time series.
C1_WriteBeforeAck == \A i \in 1..Len(stream) : Acked(i) => Written(i)

\* C1's case: an entry has been acknowledged after a failed attempt on an
\* earlier one left that one pending.
C1_Witness == \E i \in 1..Len(stream) : Acked(i) /\ pel # {}

\* C2: recovery before live. A run that started with pending entries pulls a
\* never-delivered entry only when none of those is pending any more.
C2_RecoveryBeforeLive ==
    [][\A p \in Procs :
          (cur[p] = 0 /\ cur'[p] > lastDelivered)
              => startPending[p] \cap pel = {}]_vars

\* C2's case: a run that started with pending entries is processing an entry
\* it pulled in the live phase.
C2_Witness ==
    \E p \in Procs : /\ phase[p] = "live"
                     /\ pc[p] = "check"
                     /\ startPending[p] # {}

\* Nothing but unreachability of the server stands in the way of an entry:
\* every entry of the stream is well formed, the time series accepts a
\* repeated timestamp, and the run stays below the model's bound on the
\* alert stream.
OnlyTransientFailures ==
    /\ \A i \in 1..Len(stream) : Decodes(stream[i])
    /\ dupPolicy = "LAST"
    /\ Len(alerts) < MaxAlerts

\* C3: eventual persistence and acknowledgment. When from some point on the
\* server stays reachable and the processor stays running, every entry
\* delivered to the processor is eventually written to the time series and
\* acknowledged, also an entry whose processing failed on an unreachable
\* server.
C3_EventuallyAcked ==
    (<>[](redisUp /\ Running(1)) /\ []OnlyTransientFailures)
        => \A i \in 1..MaxEntries : Delivered(i) ~> (Acked(i) /\ Written(i))

\* C4: crash redelivery. In the recovery pass, with the server reachable, the
\* write of a reading the time series already holds raises no error: the
\* processor goes on to acknowledge the entry.
C4_RedeliveryHarmless ==
    [][\A p \in Procs :
          (/\ pc[p] = "tsadd"
           /\ phase[p] = "recovery"
           /\ redisUp
           /\ Written(cur[p])
           /\ pc'[p] \in {"pull", "ack"})
              => pc'[p] = "ack"]_vars

\* C5: at most one alert per reading. The alert stream never holds two records
\* appended for the same input entry.
C5_AtMostOneAlert ==
    \A i \in 1..MaxEntries :
        Cardinality({k \in 1..Len(alerts) : alerts[k].src = i}) <= 1

\* The values of the n most recently stored samples, oldest first.
LatestValues(store, n) ==
    [i \in 1..n |-> store[Len(store) - n + i].val]

\* C6: sliding window. For a series of more than window_size samples the
\* baseline is computed from the window_size most recently stored values.
C6_SlidingWindow ==
    (probe.state = "done" /\ Len(tsStore) > probe.window_size)
        => probe.result.values = LatestValues(tsStore, probe.window_size)

\* C7: live retuning. An entry pulled after an operator wrote a
\* std_dev_multiplier to the parameter store is classified with a value the
\* parameter store has held since the pull.
C7_LiveRetuning ==
    \A p \in Procs :
        (verdict[p].done /\ verdict[p].baseline /\ paramsAtPull[p] # 0)
            => verdict[p].multiplier \in {paramsAtPull[p], params}

\* A step of processor p in the processing of an entry.
StepOf(p) == pc'[p] \in {"pull", "alert", "tsadd", "ack"} /\ pc'[p] # pc[p]

\* C8: insufficient history. An entry classified while the time series holds
\* fewer than window_size samples is classified not anomalous and no alert is
\* appended for it; the processor goes on to the write of the reading, which,
\* with the server reachable and the timestamp new to the series, puts the
\* reading into the time series, and then to the acknowledgment, which, with
\* the server reachable, takes the entry out of the pending entries.
C8_InsufficientHistory ==
    [][\A p \in Procs : \A i \in 1..MaxEntries :
          /\ (/\ pc[p] = "check" /\ cur[p] = i /\ Decodes(stream[i])
              /\ Len(tsStore) < WindowSize
              /\ StepOf(p))
                 => (/\ pc'[p] = "tsadd"
                     /\ ~verdict'[p].is_anomaly
                     /\ ~verdict'[p].baseline
                     /\ alerts' = alerts)
          /\ (/\ pc[p] = "tsadd" /\ cur[p] = i /\ ~verdict[p].baseline
              /\ redisUp /\ ~HasSample(tsStore, EntryMs(i))
              /\ StepOf(p))
                 => (pc'[p] = "ack" /\ Written(i)' /\ alerts' = alerts)
          /\ (/\ pc[p] = "ack" /\ cur[p] = i /\ ~verdict[p].baseline
              /\ redisUp
              /\ StepOf(p))
                 => (i \notin pel' /\ Written(i)' /\ alerts' = alerts)]_vars

\* C8's case: the first reading of the device, classified against an empty
\* series, is written and acknowledged and no alert exists.
C8_Witness ==
    /\ Len(stream) >= 1
    /\ Acked(1)
    /\ Written(1)
    /\ Len(tsStore) = 1
    /\ alerts = << >>

\* The entry's timestamp or temperature_c is no number.
Malformed(i) ==
    ~stream[i].timestamp.parsable \/ ~stream[i].temperature_c.parsable

\* C9: malformed entry. An entry whose timestamp or temperature_c is no number
\* stays pending once delivered, and the steps of its processing change
\* neither the time series nor the alert stream.
C9_MalformedEntry ==
    [][/\ \A i \in 1..Len(stream) :
             (Delivered(i) /\ Malformed(i)) => i \in pel'
       /\ \A p \in Procs :
             (/\ pc[p] \in {"check", "alert", "tsadd", "ack"}
              /\ Malformed(cur[p])
              /\ StepOf(p))
                => (tsStore' = tsStore /\ alerts' = alerts)]_vars

\* C9's case: a malformed entry has been processed in the live phase, is
\* pending, and the loop is back at its pull.
C9_Witness ==
    \E i \in 1..Len(stream) :
        /\ Delivered(i)
        /\ Malformed(i)
        /\ i \in pel
        /\ pc[1] = "pull"
        /\ phase[1] = "live"

\* C10: an unreachable server never ends the process: the processor never
\* exits on an error.
C10_NeverExits == \A p \in Procs : pc[p] # "exit_error"

\* C11: an operator interrupt ends a loop only once the entry in flight has
\* completed all of its steps: no process stops while the alert of its
\* entry is appended and the reading not yet written, or while the reading
\* is written and the entry not yet acknowledged.
C11_CooperativeCancellation ==
    [][\A p \in Procs :
          pc'[p] = "stopped" =>
              /\ ~(pc[p] = "tsadd" /\ verdict[p].is_anomaly)
              /\ pc[p] # "ack"]_vars

\* C12: the moving_average and the standard_deviation of every alert were
\* computed from stored readings that do not contain the reading the alert
\* is about, also when the entry is reprocessed after its reading was written.
C12_HistoricalWindow ==
    \A k \in 1..Len(alerts) : alerts[k].timestamp \notin alerts[k].window

\* The result of a classifier run that had a full window.
Classified == probe.state = "done" /\ probe.result.baseline

\* n times the sum of the squared deviations of vs from their mean, computed
\* as n * (sum of squares) - (sum)^2.
ScaledSquares(vs) ==
    LET s == SumSeq(vs)
    IN  Len(vs) * SumSeq([i \in 1..Len(vs) |-> vs[i] * vs[i]]) - s * s

\* (n * (x - mean))^2 for the mean of vs.
ScaledDeviation(x, vs) ==
    LET d == Len(vs) * x - SumSeq(vs)
    IN  d * d

\* The samples check_for_anomaly is given for the run: the oldest
\* window_size samples of the series.
WindowValues ==
    [i \in 1..probe.window_size |-> tsStore[i].val]

\* C13: with a full window of N >= 2 readings the standard deviation is the
\* sample one: x is anomalous exactly when
\* (x - mean)^2 * (N - 1) > multiplier^2 * (sum of squared deviations),
\* both sides multiplied by N * N here.
C13_SampleStdDev ==
    (Classified /\ probe.window_size >= 2) =>
        LET N == probe.window_size
            k == DefaultMultiplier
        IN  probe.result.is_anomaly <=>
                ScaledDeviation(probe.temperature, WindowValues) * (N - 1)
                    > k * k * N * ScaledSquares(WindowValues)

\* All samples given to check_for_anomaly hold the same value.
FlatWindow == \A i \in 1..probe.window_size : WindowValues[i] = WindowValues[1]

\* C14: with a full window whose readings all equal v (standard deviation
\* zero), a new reading equal to v is not anomalous and any other reading is.
C14_FlatHistory ==
    (Classified /\ FlatWindow) =>
        (probe.result.is_anomaly <=> probe.temperature # WindowValues[1])

\* A flat window of at least two readings and a different new reading,
\* classified anomalous.
C14_Witness ==
    /\ Classified
    /\ FlatWindow
    /\ probe.window_size >= 2
    /\ probe.temperature # WindowValues[1]
    /\ probe.result.is_anomaly

\* C15: a reading is anomalous exactly when it is strictly below
\* lower = mean - multiplier * std or strictly above upper = mean +
\* multiplier * std, std being the deviation check_for_anomaly computes (the
\* square root of the sum of squared deviations over N): its squared
\* distance from the mean exceeds (multiplier * std)^2. A reading exactly on
\* lower or upper is not anomalous. Both sides are multiplied by N * N.
C15_ClosedInterval ==
    Classified =>
        LET k == DefaultMultiplier
            distance == ScaledDeviation(probe.temperature, WindowValues)
            width == k * k * ScaledSquares(WindowValues)
        IN  /\ probe.result.is_anomaly <=> distance > width
            /\ distance = width => ~probe.result.is_anomaly

\* A reading exactly on a bound of a window with a non-zero deviation,
\* classified not anomalous.
C15_Witness ==
    /\ Classified
    /\ ~FlatWindow
    /\ ScaledDeviation(probe.temperature, WindowValues)
           = DefaultMultiplier * DefaultMultiplier * ScaledSquares(WindowValues)
    /\ ~probe.result.is_anomaly

\* C16: when the consumer group already exists as the processor starts,
\* create_consumer_group (the server answering BUSYGROUP) leaves the group's
\* cursor and pending set untouched, ends in no error and the processor goes
\* on to the recovery phase.
C16_IdempotentGroupInit ==
    [][\A p \in Procs :
          (/\ pc[p] = "mkgroup"
           /\ groupExists
           /\ redisUp
           /\ pc'[p] \notin {"mkgroup", "down", "stopped"})
          => /\ groupExists'
             /\ lastDelivered' = lastDelivered
             /\ pel' = pel
             /\ pc'[p] = "pull"
             /\ phase'[p] = "recovery"]_vars

\* A restarted processor has passed create_consumer_group over a group that
\* already had delivered and pending entries, and stands before its first
\* recovery pull.
C16_Witness ==
    \E p \in Procs :
        /\ pc[p] = "pull"
        /\ phase[p] = "recovery"
        /\ startPending[p] # {}
        /\ pel = startPending[p]
        /\ lastDelivered > 0

\* C17: readings are written to the time series in the order of their
\* entries in the input stream: no entry's reading is written when the
\* reading of a later entry is already in the series.
C17_ChronologicalWrites ==
    [][\A i \in 1..Len(stream) :
          (~Written(i) /\ Written(i)')
              => \A j \in (i + 1)..Len(stream) : ~Written(j)]_vars

\* The timestamp of the reading of entry i, in milliseconds.
ReadingMs(i) == stream[i].timestamp.val \div TicksPerMs

\* The samples the series holds at the timestamp of the reading of entry i.
SamplesOf(i) == {j \in 1..Len(tsStore) : tsStore[j].ts = ReadingMs(i)}

\* C18: the time series holds exactly one sample for each acknowledged
\* reading, at the reading's timestamp, and writing a reading that is
\* already in the series leaves the series as it was.
C18_ExactlyOnceInEffect ==
    [][/\ \A i \in 1..Len(stream) : Acked(i)' => Cardinality(SamplesOf(i))' = 1
       /\ \A p \in Procs :
             (/\ pc[p] = "tsadd"
              /\ Written(cur[p])
              /\ pc'[p] \in {"ack", "pull"})
             => tsStore' = tsStore]_vars

\* A reading that was in the series when its entry was handed to
\* check_for_anomaly has been written again, and the series holds one sample
\* of it.
C18_Witness ==
    \E p \in Procs :
        /\ pc[p] = "ack"
        /\ ReadingMs(cur[p]) \in verdict[p].stamps
        /\ Cardinality(SamplesOf(cur[p])) = 1

\* What check_for_anomaly returns for the entry p holds when the history is
\* insufficient: its result on an empty series.
InsufficientHistory(p) ==
    CheckForAnomaly(<< >>, stream[cur[p]].temperature_c.val, WindowSize,
                    DefaultMultiplier)

\* C19: when the range query of the time series fails, check_for_anomaly
\* raises nothing and returns what it returns for insufficient history, not
\* anomalous and no baseline; the processor goes on to the write of the
\* reading and no alert is appended for the entry.
C19_BaselineUnavailable ==
    [][\A p \in Procs :
          /\ (/\ pc[p] = "check" /\ ~Malformed(cur[p])
              /\ ~redisUp
              /\ StepOf(p))
                 => (/\ pc'[p] = "tsadd"
                     /\ verdict'[p] = InsufficientHistory(p)
                     /\ ~verdict'[p].is_anomaly
                     /\ ~verdict'[p].baseline
                     /\ alerts' = alerts)
          /\ (/\ pc[p] \in {"tsadd", "ack"} /\ ~verdict[p].baseline
              /\ StepOf(p))
                 => alerts' = alerts]_vars

\* An entry stands before its write with no baseline although the series
\* holds a full window: its range query failed.
C19_Witness ==
    \E p \in Procs :
        /\ pc[p] = "tsadd"
        /\ ~verdict[p].baseline
        /\ Len(tsStore) >= WindowSize

\* The new reading of scenario A, 21.5 degrees, in half degrees.
ScenarioAReading == 43

\* check_for_anomaly has run on scenario A: window_size 5, multiplier 2, the
\* stored readings 20, 21, 19, 20, 20 and the new reading 21.5.
ScenarioARun ==
    /\ probe.state = "done"
    /\ tsStore = Series(ScenarioA)
    /\ probe.window_size = Len(ScenarioA)
    /\ probe.temperature = ScenarioAReading

\* C20 as stated: in scenario A the new reading 21.5 is classified not
\* anomalous.
C20_ScenarioA == ScenarioARun => ~probe.result.is_anomaly

\* C20, amended: in scenario A the baseline is the five stored readings with
\* mean 20, and the new reading 21.5 is classified anomalous.
C20_ScenarioA_Amended ==
    ScenarioARun =>
        /\ probe.result.baseline
        /\ probe.result.n = 5
        /\ probe.result.sum = 20 * 2 * probe.result.n
        /\ probe.result.is_anomaly

\* Scenario A has been classified, and the reading found anomalous.
C20_Witness == ScenarioARun /\ probe.result.is_anomaly

\* C21: recovery terminates. When from some point on the server stays
\* reachable and the processor stays running, a processor in its recovery
\* phase eventually enters the live phase, also when a pending entry is
\* malformed or its write is refused every time.
C21_RecoveryTerminates ==
    (<>[](redisUp /\ Running(1)) /\ [](Len(alerts) < MaxAlerts))
        => (phase[1] = "recovery" ~> phase[1] = "live")

\* The processing of the entry p holds fails in this step: the entry is in
\* flight before it and still pending after it, and p is not killed.
FailsEntry(p) ==
    /\ pc[p] \in {"check", "alert", "tsadd", "ack"}
    /\ pc'[p] \notin {pc[p], "alert", "tsadd", "ack", "down", "stopped"}

\* Entry i has not been delivered while an earlier entry, delivered to the
\* running live loop, is pending: its processing failed.
BehindFailedEntry(i) ==
    /\ phase[1] = "live"
    /\ i <= Len(stream)
    /\ ~Delivered(i)
    /\ ~Malformed(i)
    /\ \E j \in 1..(i - 1) : j \in pel /\ j # cur[1]

\* C22: failure containment in the live phase. A failed entry leaves the
\* live loop at its next pull, and while the loop is left running with the
\* server reachable, a well-formed entry behind a failed one is still
\* delivered, written and acknowledged.
C22_FailureContainment ==
    /\ [][\A p \in Procs :
             (phase[p] = "live" /\ FailsEntry(p))
                => (pc'[p] = "pull" /\ phase'[p] = "live")]_vars
    /\ \A i \in 1..MaxEntries :
          [](BehindFailedEntry(i)
                => ([](redisUp /\ Running(1) /\ Len(alerts) < MaxAlerts)
                       => <>(Acked(i) /\ Written(i))))

\* An entry failed in the live phase of this run and is pending, and a later
\* entry has been written and acknowledged by the same run.
C22_Witness ==
    \E i \in 1..Len(stream) : \E j \in 1..(i - 1) :
        /\ phase[1] = "live"
        /\ startPending[1] = {}
        /\ j \in pel
        /\ Acked(i)
        /\ Written(i)

\* C23: no double processing across consumers. No input entry is in the
\* hands of two processor instances at the same time.
C23_NoDoubleProcessing ==
    \A p \in Procs : \A q \in Procs \ {p} :
        cur[p] # 0 => cur[q] # cur[p]

\* The values of the samples an alert's baseline was computed from, oldest
\* first.
BaselineValues(a) ==
    LET samples == SelectSeq(tsStore, LAMBDA s : s.ts \in a.window)
    IN  [i \in 1..Len(samples) |-> samples[i].val]

\* The record a was appended for an entry of the input stream whose
\* temperature lies strictly outside mean -/+ multiplier * std of a's
\* baseline, and carries the device, the temperature, the mean and the
\* standard deviation of that baseline and the entry's timestamp in ms.
AlertOfAnomaly(a) ==
    LET vs == BaselineValues(a)
        n == Len(vs)
        t == stream[a.src].temperature_c.val
    IN  /\ a.src \in 1..Len(stream)
        /\ ~Malformed(a.src)
        /\ a.device_id = "01"
        /\ a.type = "statistical_anomaly"
        /\ a.temp_reading = t
        /\ a.timestamp = ReadingMs(a.src)
        /\ n = WindowSize
        /\ a.moving_average = <<SumSeq(vs), n>>
        /\ a.standard_deviation_sq[1] * n * n
               = ScaledSquares(vs) * a.standard_deviation_sq[2]
        /\ ScaledDeviation(t, vs)
               > DefaultMultiplier * DefaultMultiplier * ScaledSquares(vs)

\* C24: alerts only for anomalies. The alert stream changes only by the
\* append of one record, which at that moment is the alert of an anomaly,
\* for the entry of a processor whose verdict on it is anomalous.
C24_AlertsOnlyForAnomalies ==
    [][alerts' # alerts
          => /\ alerts' = Append(alerts, alerts'[Len(alerts')])
             /\ AlertOfAnomaly(alerts'[Len(alerts')])
             /\ \E p \in Procs :
                   /\ verdict[p].done
                   /\ verdict[p].is_anomaly
                   /\ alerts'[Len(alerts')].src = cur[p]]_vars

\* An alert has been appended for a reading and the entry acknowledged.
C24_Witness ==
    \E k \in 1..Len(alerts) :
        /\ AlertOfAnomaly(alerts[k])
        /\ Acked(alerts[k].src)

\* The alert consumer takes a step of its own in this step.
AlertStepTaken ==
    /\ alertConsumer'.pc # alertConsumer.pc
    /\ alertConsumer'.pc \notin {"down", "exit_error"}

\* C25: the alert consumer always drains. Every alert handed to print_alert,
\* decodable or not, goes on to its acknowledgment; with the server
\* reachable the acknowledgment takes it out of the pending entries; and
\* while the server stays reachable and the consumer running, a recovery
\* phase ends in the live phase.
C25_AlertConsumerDrains ==
    /\ [][/\ (alertConsumer.pc = "print" /\ AlertStepTaken)
                => (/\ alertConsumer'.pc = "ack"
                    /\ alertConsumer'.cur = alertConsumer.cur)
          /\ (alertConsumer.pc = "ack" /\ redisUp /\ AlertStepTaken)
                => alertConsumer.cur \notin alertConsumer'.pel]_vars
    /\ [](alertConsumer.phase = "recovery"
             => ([](redisUp /\ AlertConsumerRunning)
                    => <>(alertConsumer.phase = "live" /\ alertConsumer.pel = {})))

\* A recovery phase that found an undecodable alert pending has ended: the
\* consumer is in its live phase and nothing is pending.
C25_Witness ==
    /\ alertConsumer.phase = "live"
    /\ alertConsumer.pel = {}
    /\ \E k \in alertConsumer.startPending : ~alerts[k].timestamp.parsable

=============================================================================
